---- MODULE Spec2Model ----
(***************************************************************************)
(* Conway's Game of Life: the ConwayUniverse class of universe.py and the  *)
(* driver of conway.py.  The grid is a numpy integer matrix indexed        *)
(* [x, y] with x in 0..width-1 and y in 0..height-1; numpy accepts an      *)
(* index i of an axis of size n when -n <= i < n, reads i < 0 as n + i,    *)
(* and raises IndexError otherwise.                                        *)
(***************************************************************************)
EXTENDS Integers, Sequences, FiniteSets, TLC

VARIABLES
    width,        \* self.__width
    height,       \* self.__height
    boundary,     \* self.__boundary
    cycles,       \* self.__cycles
    unimat,       \* self.__unimat : [<<x, y>> -> Int]
    pc,           \* position of the caller: "idle", or inside run()
    cycle,        \* run(): the loop variable of the generation loop
    ucopy,        \* run(): the next grid under construction
    cells_alive,  \* run(): the live cells found at the start of the generation
    position,     \* run(): index of the live cell handled next (0-based)
    order,        \* the order in which scipy.sparse.find lists the cells
    start,        \* history: the grid (count_nhood(nh): nh) when the pending call was made
    old,          \* history: the grid at the start of the latest generation
    work,         \* history: what the pending run() has done so far
    call,         \* history: the pending call and its arguments
    ret           \* the value returned, or the exception raised, by the call

vars == <<width, height, boundary, cycles, unimat, pc, cycle, ucopy,
          cells_alive, position, order, start, old, work, call, ret>>

----------------------------------------------------------------------------
(* Bounds of the exploration *)

MaxCoord == 4
MaxLive == 4
MaxCycles == 2
MaxSetLive == 2
MaxDepth == 3
BlockDim == 4

(* Program constants *)

CELL_ALIVE == 1
CELL_DEAD == 0
CELL_INACTIVE == -1

(* The sides of the grids explored: a depth-1 window wraps onto itself on   *)
(* a side of 1 or 2 and does not on a side of 3.                           *)
Dims == {1, 2, 3}
Coords == (0 - MaxCoord)..MaxCoord
CellValues == {CELL_DEAD, CELL_ALIVE}
Orders == {"col", "row"}
NhoodTypes == {"MOORE", "vN"}

----------------------------------------------------------------------------
(* Values *)

Cells(w, h) == (0..(w - 1)) \X (0..(h - 1))

NoGrid == [p \in {} |-> 0]
NoWork == [allocs |-> 0, cells |-> 0, swaps |-> 0]
NoCall == [op |-> "none", x |-> 0, y |-> 0, arg |-> 0, type |-> ""]
NoRet == [kind |-> "none", val |-> 0, axis |-> ""]

Value(v) == [kind |-> "value", val |-> v, axis |-> ""]
PyNone == [kind |-> "None", val |-> 0, axis |-> ""]
Raised(e) == [kind |-> e, val |-> 0, axis |-> ""]
ConwayIndexError(ax, index) == [kind |-> "ConwayIndexError", val |-> index, axis |-> ax]
Matrix(n, m, f) == [rows |-> n, cols |-> m, cell |-> f]
Returned(m) == [kind |-> "matrix", val |-> m, axis |-> ""]

(* the exception classes of universe.py *)
UniverseErrors == {"ConwayUniverseError", "ConwayIndexError", "ConwayValueError"}

IsError(r) == r.kind \notin {"none", "value", "matrix", "None"}

reshape(w, h) == [p \in Cells(w, h) |-> 0]

Population(g) == Cardinality({p \in DOMAIN g : g[p] = CELL_ALIVE})

----------------------------------------------------------------------------
(* numpy indexing of one axis of size n *)

NpValid(i, n) == (0 - n) <= i /\ i < n
NpIndex(i, n) == IF i < 0 THEN n + i ELSE i

----------------------------------------------------------------------------
(* ConwayUniverse.__getitem__ *)

IndexMessage(x, y) ==
    IF x > width - 1 THEN ConwayIndexError("width", x)
    ELSE IF y > height - 1 THEN ConwayIndexError("height", y)
    ELSE Raised("UnboundLocalError")

getitem(x, y) ==
    IF NpValid(x, width) /\ NpValid(y, height)
    THEN Value(unimat[<<NpIndex(x, width), NpIndex(y, height)>>])
    ELSE IF ~boundary THEN PyNone
    ELSE IndexMessage(x, y)

(* ConwayUniverse.__setitem__ : the grid after the call and its outcome *)

setitem_transposed(x, y, alive) ==
    IF NpValid(x, width) /\ NpValid(y, height)
    THEN [grid |-> [p \in DOMAIN unimat |->
                       IF p = <<NpIndex(y, height), NpIndex(x, width)>> THEN alive
                       ELSE unimat[p]],
          ret |-> PyNone]
    ELSE [grid |-> unimat, ret |-> IndexMessage(x, y)]

setitem(x, y, alive) ==
    IF NpValid(x, width) /\ NpValid(y, height)
    THEN [grid |-> [unimat EXCEPT ![<<NpIndex(x, width), NpIndex(y, height)>>] = alive],
          ret |-> PyNone]
    ELSE [grid |-> unimat, ret |-> IndexMessage(x, y)]

----------------------------------------------------------------------------
(* ConwayUniverse.__translate_coordinate *)

translate_wrong_high(coord, dimension) ==
    IF ~boundary THEN coord
    ELSE IF coord < 0 THEN dimension + coord
    ELSE IF coord > dimension - 1 THEN coord - dimension + 1
    ELSE coord

translate_coordinate(coord, dimension) ==
    IF ~boundary THEN coord
    ELSE IF coord < 0 THEN dimension + coord
    ELSE IF coord > dimension - 1 THEN coord - dimension
    ELSE coord

(* ConwayUniverse.__middle *)

middle(len) == (len - 1) \div 2

----------------------------------------------------------------------------
(* ConwayUniverse.nhood_moore *)

(* What the loops leave in moore[mi, mj]: a value, or the exception that    *)
(* reading the grid raises.                                                *)
MooreCell(x, y, depth, mi, mj) ==
    LET i == x - depth + mi
        j == y - depth + mj
        actual_x == translate_coordinate(i, width)
        actual_y == translate_coordinate(j, height)
    IN  IF ~boundary /\ (actual_x < 0 \/ actual_x > width - 1)
        THEN \* moore[moore_x, -1] = -1 and the row is skipped: the other
             \* cells of the row keep the 0 of reshape
             Value(IF mj = 2 * depth THEN CELL_INACTIVE ELSE 0)
        ELSE IF ~boundary /\ (actual_y < 0 \/ actual_y > height - 1)
        THEN Value(CELL_INACTIVE)
        ELSE IF boundary \/ (actual_x = i /\ actual_y = j)
        THEN LET r == getitem(actual_x, actual_y)
             IN  IF r.kind = "None" THEN Raised("TypeError") ELSE r
        ELSE Value(CELL_INACTIVE)

RowMajorBefore(p, q) == p[1] < q[1] \/ (p[1] = q[1] /\ p[2] <= q[2])

nhood_moore(x, y, depth) ==
    LET dimension == 2 * depth + 1
        idx == Cells(dimension, dimension)
        got == [p \in idx |-> MooreCell(x, y, depth, p[1], p[2])]
        bad == {p \in idx : got[p].kind # "value"}
    IN  IF bad = {}
        THEN Returned(Matrix(dimension, dimension, [p \in idx |-> got[p].val]))
        ELSE got[CHOOSE p \in bad : \A q \in bad : RowMajorBefore(p, q)]

(* ConwayUniverse.nhood_vN : masks a copy and returns nothing *)

nhood_vN(x, y, depth) ==
    LET nh == nhood_moore(x, y, depth)
    IN  IF nh.kind = "matrix" THEN PyNone ELSE nh

(* ConwayUniverse.nhood *)

nhood(x, y, depth, type) ==
    IF type = "MOORE" THEN nhood_moore(x, y, depth)
    ELSE IF type = "vN" THEN nhood_vN(x, y, depth)
    ELSE PyNone

----------------------------------------------------------------------------
(* ConwayUniverse.count_nhood on a matrix; the whole grid is self[:] *)

WholeGrid == Matrix(width, height, unimat)

count_matrix(m) ==
    IF m.rows < 2 THEN Raised("IndexError")            \* nhood[1]
    ELSE LET middle_x == middle(m.cols)                \* len(nhood[0])
             middle_y == middle(m.cols)                \* len(nhood[1])
             count == Cardinality({p \in DOMAIN m.cell : m.cell[p] = CELL_ALIVE})
         IN  IF middle_x > m.rows - 1 THEN Raised("IndexError")
             ELSE IF m.cell[<<middle_x, middle_y>>] = 1 THEN Value(count - 1)
             ELSE Value(count)

count_nhood_whole == count_matrix(WholeGrid)

----------------------------------------------------------------------------
(* scipy.sparse.find on the grid: the coordinates of the nonzero cells.    *)
(* Its order is that of the COO matrix after sum_duplicates: sorted by     *)
(* column then row in the scipy releases of 2017, by row then column in    *)
(* later ones.                                                             *)

FindKey(p, ord) == IF ord = "row" THEN p[1] * height + p[2] ELSE p[2] * width + p[1]

find_alive(g, ord) ==
    LET nz == {p \in DOMAIN g : g[p] # 0}
    IN  [k \in 1..Cardinality(nz) |->
            CHOOSE p \in nz : Cardinality({q \in nz : FindKey(q, ord) < FindKey(p, ord)}) = k - 1]

----------------------------------------------------------------------------
(* ConwayUniverse.run : the body of the loop over the live cells *)

(* line 332: the provisional survival write *)
survive_first(nalive) == IF nalive = 2 \/ nalive = 3 THEN 1 ELSE 0

(* line 356: the last write to the live cell's own position *)
survive_upto3(nalive) == IF nalive <= 3 THEN 1 ELSE 0

survive_count(nalive) == nalive

survive_final(nalive) == IF nalive = 3 THEN 1 ELSE 0

(* line 339: the neighbourhood the birth test counts; it is taken at the   *)
(* live cell (x, y), whatever the window position (xd, yd)                 *)
nh_dead(x, y, xd, yd) == nhood(x, y, 1, "MOORE")

(* lines 335-352: the cells of ucopy the birth loop sets to True *)
BirthTargets(x, y, nh) ==
    LET mid == middle(nh.rows)
        hit == {d \in Cells(nh.rows, nh.rows) :
                  /\ nh.cell[d] = 0
                  /\ count_matrix(nh_dead(x, y, d[1], d[2]).val).val = 3}
        ax(d) == translate_coordinate(x - mid + d[1], width)
        ay(d) == translate_coordinate(y - mid + d[2], height)
    IN  {<<NpIndex(ax(d), width), NpIndex(ay(d), height)>> :
            d \in {e \in hit : NpValid(ax(e), width) /\ NpValid(ay(e), height)}}

(* lines 317-356: ucopy after the live cell (x, y) has been handled *)
process_cell(next, x, y) ==
    LET nh == nhood(x, y, 1, "MOORE").val
        nalive == count_matrix(nh).val
        born == BirthTargets(x, y, nh)
        first == [next EXCEPT ![<<x, y>>] = survive_first(nalive)]
        births == [p \in DOMAIN next |-> IF p \in born THEN 1 ELSE first[p]]
    IN  [births EXCEPT ![<<translate_coordinate(x, width),
                           translate_coordinate(y, height)>>] = survive_final(nalive)]

(* line 306: the test that ends the run on a dead universe *)
never_dead(g) == FALSE

universe_dead(g) == \A p \in DOMAIN g : g[p] = 0

----------------------------------------------------------------------------
(* Construction: ConwayUniverse(width, height, cycles, boundary) *)

Init ==
    /\ width \in Dims
    /\ height \in Dims
    /\ boundary \in BOOLEAN
    /\ cycles \in 0..MaxCycles
    /\ unimat = reshape(width, height)
    /\ order \in Orders
    /\ pc = "idle"
    /\ cycle = 0
    /\ ucopy = NoGrid
    /\ cells_alive = <<>>
    /\ position = 0
    /\ start = NoGrid
    /\ old = NoGrid
    /\ work = NoWork
    /\ call = NoCall
    /\ ret = NoRet

Ready == pc = "idle" /\ ret = NoRet

(* conway.py: u[x, y] = v, the driver seeding the grid before run *)
Seed(x, y, v) ==
    /\ Ready
    /\ v = CELL_ALIVE => Population(unimat) < MaxLive
    /\ unimat' = setitem(x, y, v).grid
    /\ UNCHANGED <<width, height, boundary, cycles, pc, cycle, ucopy, cells_alive,
                   position, order, start, old, work, call, ret>>

(* the cycles setter *)
SetCycles(c) ==
    /\ Ready
    /\ cycles' = c
    /\ UNCHANGED <<width, height, boundary, unimat, pc, cycle, ucopy, cells_alive,
                   position, order, start, old, work, call, ret>>

(* the boundary setter *)
SetBoundary(b) ==
    /\ Ready
    /\ boundary' = b
    /\ UNCHANGED <<width, height, cycles, unimat, pc, cycle, ucopy, cells_alive,
                   position, order, start, old, work, call, ret>>

(* run(): seed() does nothing and the loop starts at cycle 1 *)
RunCall ==
    /\ Ready
    /\ pc' = "loop"
    /\ cycle' = 1
    /\ start' = unimat
    /\ call' = [op |-> "run", x |-> 0, y |-> 0, arg |-> cycles, type |-> ""]
    /\ work' = NoWork
    /\ UNCHANGED <<width, height, boundary, cycles, unimat, ucopy, cells_alive,
                   position, order, old, ret>>

(* range(1, cycles + 1) is exhausted: run returns *)
RunExhausted_early ==
    /\ pc = "loop"
    /\ cycle >= cycles
    /\ pc' = "idle"
    /\ ret' = [kind |-> "None", val |-> 0, axis |-> "exhausted"]
    /\ UNCHANGED <<width, height, boundary, cycles, unimat, cycle, ucopy, cells_alive,
                   position, order, start, old, work, call>>

RunExhausted ==
    /\ pc = "loop"
    /\ cycle > cycles
    /\ pc' = "idle"
    /\ ret' = [kind |-> "None", val |-> 0, axis |-> "exhausted"]
    /\ UNCHANGED <<width, height, boundary, cycles, unimat, cycle, ucopy, cells_alive,
                   position, order, start, old, work, call>>

(* no live cell at the start of the generation: run returns *)
RunDead ==
    /\ pc = "loop"
    /\ cycle <= cycles
    /\ universe_dead(unimat)
    /\ pc' = "idle"
    /\ ret' = [kind |-> "None", val |-> 0, axis |-> "dead"]
    /\ UNCHANGED <<width, height, boundary, cycles, unimat, cycle, ucopy, cells_alive,
                   position, order, start, old, work, call>>

(* ucopy = self.reshape(); cells_alive = find_alive(self.__unimat) *)
BeginGeneration ==
    /\ pc = "loop"
    /\ cycle <= cycles
    /\ ~universe_dead(unimat)
    /\ ucopy' = reshape(width, height)
    /\ cells_alive' = find_alive(unimat, order)
    /\ position' = 0
    /\ old' = unimat
    /\ work' = [work EXCEPT !.allocs = @ + 1]
    /\ pc' = "cells"
    /\ UNCHANGED <<width, height, boundary, cycles, unimat, cycle, order, start,
                   call, ret>>

(* one iteration of the loop over cells_alive *)
ProcessCell_in_place ==
    /\ pc = "cells"
    /\ position < Len(cells_alive)
    /\ LET c == cells_alive[position + 1]
       IN  /\ unimat' = process_cell(unimat, c[1], c[2])
           /\ ucopy' = process_cell(unimat, c[1], c[2])
    /\ position' = position + 1
    /\ work' = [work EXCEPT !.cells = @ + 1]
    /\ UNCHANGED <<width, height, boundary, cycles, pc, cycle, cells_alive,
                   order, start, old, call, ret>>

ProcessCell ==
    /\ pc = "cells"
    /\ position < Len(cells_alive)
    /\ LET c == cells_alive[position + 1]
       IN  ucopy' = process_cell(ucopy, c[1], c[2])
    /\ position' = position + 1
    /\ work' = [work EXCEPT !.cells = @ + 1]
    /\ UNCHANGED <<width, height, boundary, cycles, unimat, pc, cycle, cells_alive,
                   order, start, old, call, ret>>

(* self.__unimat = ucopy, and the loop goes to the next cycle *)
EndGeneration ==
    /\ pc = "cells"
    /\ position = Len(cells_alive)
    /\ unimat' = ucopy
    /\ ucopy' = NoGrid
    /\ cells_alive' = <<>>
    /\ position' = 0
    /\ cycle' = cycle + 1
    /\ work' = [work EXCEPT !.swaps = @ + 1]
    /\ pc' = "loop"
    /\ UNCHANGED <<width, height, boundary, cycles, order, start, old, call, ret>>

(* the caller drops the result of the call and goes on *)
Discard ==
    /\ pc = "idle"
    /\ ret # NoRet
    /\ ret' = NoRet
    /\ call' = NoCall
    /\ start' = NoGrid
    /\ old' = NoGrid
    /\ work' = NoWork
    /\ cycle' = 0
    /\ UNCHANGED <<width, height, boundary, cycles, unimat, pc, ucopy, cells_alive,
                   position, order>>

RunStep ==
    \/ RunCall
    \/ RunExhausted
    \/ RunDead
    \/ BeginGeneration
    \/ ProcessCell
    \/ EndGeneration
    \/ Discard

Configure ==
    \/ \E c \in 0..MaxCycles : SetCycles(c)
    \/ \E b \in BOOLEAN : SetBoundary(b)

Next ==
    \/ \E x \in Coords, y \in Coords, v \in CellValues : Seed(x, y, v)
    \/ Configure
    \/ RunStep

Spec == Init /\ [][Next]_vars

----------------------------------------------------------------------------
(* Direct access and queries, one call at a time *)

(* u[x, y] *)
Get(x, y) ==
    /\ Ready
    /\ call' = [op |-> "get", x |-> x, y |-> y, arg |-> 0, type |-> ""]
    /\ start' = unimat
    /\ ret' = getitem(x, y)
    /\ UNCHANGED <<width, height, boundary, cycles, unimat, pc, cycle, ucopy,
                   cells_alive, position, order, old, work>>

(* u[x, y] = v *)
Set(x, y, v) ==
    /\ Ready
    /\ v = CELL_ALIVE => Population(unimat) < MaxSetLive
    /\ call' = [op |-> "set", x |-> x, y |-> y, arg |-> v, type |-> ""]
    /\ start' = unimat
    /\ unimat' = setitem(x, y, v).grid
    /\ ret' = setitem(x, y, v).ret
    /\ UNCHANGED <<width, height, boundary, cycles, pc, cycle, ucopy,
                   cells_alive, position, order, old, work>>

(* u.count_nhood() *)
CountLive ==
    /\ Ready
    /\ call' = [op |-> "count", x |-> 0, y |-> 0, arg |-> 0, type |-> ""]
    /\ start' = unimat
    /\ ret' = count_nhood_whole
    /\ UNCHANGED <<width, height, boundary, cycles, unimat, pc, cycle, ucopy,
                   cells_alive, position, order, old, work>>

(* u.nhood(x, y, depth, type) at a cell of the grid *)
Nhood_clearing_centre(x, y, depth, type) ==
    /\ Ready
    /\ call' = [op |-> "nhood", x |-> x, y |-> y, arg |-> depth, type |-> type]
    /\ start' = unimat
    /\ ret' = nhood(x, y, depth, type)
    /\ unimat' = [unimat EXCEPT ![<<x, y>>] = CELL_DEAD]
    /\ UNCHANGED <<width, height, boundary, cycles, pc, cycle, ucopy,
                   cells_alive, position, order, old, work>>

Nhood(x, y, depth, type) ==
    /\ Ready
    /\ call' = [op |-> "nhood", x |-> x, y |-> y, arg |-> depth, type |-> type]
    /\ start' = unimat
    /\ ret' = nhood(x, y, depth, type)
    /\ UNCHANGED <<width, height, boundary, cycles, unimat, pc, cycle, ucopy,
                   cells_alive, position, order, old, work>>

(* u.count_nhood(nh) on the matrix nh that a call of nhood has returned *)
CountWindow ==
    /\ pc = "idle"
    /\ call.op = "nhood"
    /\ ret.kind = "matrix"
    /\ call' = [call EXCEPT !.op = "count_window"]
    /\ start' = ret.val.cell
    /\ ret' = count_matrix(ret.val)
    /\ UNCHANGED <<width, height, boundary, cycles, unimat, pc, cycle, ucopy,
                   cells_alive, position, order, old, work>>

(* u.width = w : the property width has a getter only, so Python rejects    *)
(* the assignment before any code of the class runs                         *)
SetWidth(w) ==
    /\ Ready
    /\ call' = [op |-> "set_width", x |-> 0, y |-> 0, arg |-> w, type |-> ""]
    /\ start' = unimat
    /\ ret' = Raised("AttributeError")
    /\ UNCHANGED <<width, height, boundary, cycles, unimat, pc, cycle, ucopy,
                   cells_alive, position, order, old, work>>

(* u.height = h *)
SetHeight(h) ==
    /\ Ready
    /\ call' = [op |-> "set_height", x |-> 0, y |-> 0, arg |-> h, type |-> ""]
    /\ start' = unimat
    /\ ret' = Raised("AttributeError")
    /\ UNCHANGED <<width, height, boundary, cycles, unimat, pc, cycle, ucopy,
                   cells_alive, position, order, old, work>>

InitQuery ==
    /\ Init
    /\ cycles = 0
    /\ order = "col"

NextQuery ==
    \/ \E x \in Coords, y \in Coords : Get(x, y)
    \/ \E x \in Coords, y \in Coords, v \in CellValues : Set(x, y, v)
    \/ CountLive
    \/ CountWindow
    \/ \E x \in 0..(width - 1), y \in 0..(height - 1), depth \in 0..MaxDepth,
          type \in NhoodTypes : Nhood(x, y, depth, type)
    \/ \E b \in BOOLEAN : SetBoundary(b)
    \/ \E w \in Dims : SetWidth(w)
    \/ \E h \in Dims : SetHeight(h)
    \/ Discard

SpecQuery == InitQuery /\ [][NextQuery]_vars

----------------------------------------------------------------------------
(* A universe seeded with one 2x2 block that does not touch the edge *)

Block(bx, by) == {<<bx, by>>, <<bx + 1, by>>, <<bx, by + 1>>, <<bx + 1, by + 1>>}

LiveSet(g) == {p \in DOMAIN g : g[p] = CELL_ALIVE}

IsInteriorBlock(g) ==
    /\ DOMAIN g = Cells(width, height)
    /\ \A p \in DOMAIN g : g[p] \in CellValues
    /\ \E bx \in 1..(width - 3), by \in 1..(height - 3) : LiveSet(g) = Block(bx, by)

InitBlock ==
    /\ width \in BlockDim..(BlockDim + 1)
    /\ height \in BlockDim..(BlockDim + 1)
    /\ boundary \in BOOLEAN
    /\ cycles \in 0..(MaxCycles + 1)
    /\ \E bx \in 1..(width - 3), by \in 1..(height - 3) :
          unimat = [p \in Cells(width, height) |->
                       IF p \in Block(bx, by) THEN CELL_ALIVE ELSE CELL_DEAD]
    /\ order \in Orders
    /\ pc = "idle"
    /\ cycle = 0
    /\ ucopy = NoGrid
    /\ cells_alive = <<>>
    /\ position = 0
    /\ start = NoGrid
    /\ old = NoGrid
    /\ work = NoWork
    /\ call = NoCall
    /\ ret = NoRet

(* one call of run() on the seeded universe *)
NextBlock ==
    \/ RunCall
    \/ RunExhausted
    \/ RunDead
    \/ BeginGeneration
    \/ ProcessCell
    \/ EndGeneration

SpecBlock == InitBlock /\ [][NextBlock]_vars

----------------------------------------------------------------------------
(* One call of run() to completion, on a small universe seeded with any    *)
(* cells and with any cycles, negative ones included: range(1, cycles + 1)  *)
(* is empty for cycles <= 0                                                 *)

RunDims == {1, 2}
CycleValues == (0 - 1)..MaxCycles

InitRun ==
    /\ width \in RunDims
    /\ height \in RunDims
    /\ boundary \in BOOLEAN
    /\ cycles \in CycleValues
    /\ unimat \in {g \in [Cells(width, height) -> CellValues] : Population(g) <= MaxLive}
    /\ order = "col"
    /\ pc = "idle"
    /\ cycle = 0
    /\ ucopy = NoGrid
    /\ cells_alive = <<>>
    /\ position = 0
    /\ start = NoGrid
    /\ old = NoGrid
    /\ work = NoWork
    /\ call = NoCall
    /\ ret = NoRet

(* run() is a blocking call of a single thread: once called, its next step  *)
(* is taken                                                                 *)
RunProgress ==
    \/ RunExhausted
    \/ RunDead
    \/ BeginGeneration
    \/ ProcessCell
    \/ EndGeneration

SpecRun == InitRun /\ [][NextBlock]_vars /\ WF_vars(RunProgress)

----------------------------------------------------------------------------
(* Vocabulary of the properties, independent of the operators above *)

InGrid(x, y) == 0 <= x /\ x < width /\ 0 <= y /\ y < height

AllDead(g) == \A p \in DOMAIN g : g[p] = CELL_DEAD

(* the cells around p, on the torus or inside the hard edge *)
NeighbourCells(p) ==
    LET around == {<<p[1] + dx, p[2] + dy>> : dx \in -1..1, dy \in -1..1}
    IN  IF boundary
        THEN {<<q[1] % width, q[2] % height>> : q \in around} \ {p}
        ELSE {q \in around : InGrid(q[1], q[2])} \ {p}

LiveNeighbours(g, p) == Cardinality({q \in NeighbourCells(p) : g[q] = CELL_ALIVE})

RunReturned == pc = "idle" /\ call.op = "run" /\ ret.kind = "None"

(* a generation has just replaced the grid: old is the grid it started from *)
AfterGeneration == pc = "loop" /\ work.swaps >= 1

----------------------------------------------------------------------------
(* C1: a universe whose only live cells are a 2x2 block away from the edge  *)
(* is the same after run(), whatever cycles and the boundary mode are.      *)
C1_BlockStable ==
    (RunReturned /\ IsInteriorBlock(start)) => unimat = start

(* C2: a cell alive at the start of a generation is alive after it iff it   *)
(* had 2 or 3 live Moore neighbours in the old grid.                        *)
C2_SurvivalRule ==
    AfterGeneration =>
        \A p \in DOMAIN old :
            old[p] = CELL_ALIVE =>
                (unimat[p] = CELL_ALIVE <=> LiveNeighbours(old, p) \in {2, 3})

(* C3: a cell dead at the start of a generation is alive after it iff it    *)
(* had exactly 3 live Moore neighbours of its own in the old grid.          *)
C3_BirthRule ==
    AfterGeneration =>
        \A p \in DOMAIN old :
            old[p] = CELL_DEAD =>
                (unimat[p] = CELL_ALIVE <=> LiveNeighbours(old, p) = 3)

(* C4: get and set at a coordinate pair outside the grid, negative ones     *)
(* included, raise the index error in both boundary modes, return no value  *)
(* and leave the grid as it was.                                            *)
C4_AccessBoundsChecked ==
    (call.op \in {"get", "set"} /\ ~InGrid(call.x, call.y)) =>
        (ret.kind = "ConwayIndexError" /\ unimat = start)

(* C5: with boundary false, every cell of nhood(x, y, depth) whose absolute *)
(* coordinate is outside the grid holds -1, in a row outside the grid too.  *)
C5_HardEdgedNhood ==
    (call.op = "nhood" /\ call.type = "MOORE" /\ ~boundary) =>
        /\ ret.kind = "matrix"
        /\ \A p \in Cells(2 * call.arg + 1, 2 * call.arg + 1) :
              ~InGrid(call.x - call.arg + p[1], call.y - call.arg + p[2]) =>
                  ret.val.cell[p] = CELL_INACTIVE

(* C6: with boundary true and a depth of at most the grid's sides,          *)
(* nhood(x, y, depth) is a square of side 2*depth+1 without -1, whose cell  *)
(* (i, j) is the grid at ((x-depth+i) mod width, (y-depth+j) mod height);   *)
(* -1 translates to dimension-1 and dimension to 0.                         *)
C6_ToroidalNhood ==
    (/\ call.op = "nhood" /\ call.type = "MOORE" /\ boundary
     /\ call.arg <= width /\ call.arg <= height) =>
        /\ ret.kind = "matrix"
        /\ ret.val.rows = 2 * call.arg + 1
        /\ ret.val.cols = 2 * call.arg + 1
        /\ DOMAIN ret.val.cell = Cells(2 * call.arg + 1, 2 * call.arg + 1)
        /\ \A p \in DOMAIN ret.val.cell :
              /\ ret.val.cell[p] # CELL_INACTIVE
              /\ ret.val.cell[p] = unimat[<<(call.x - call.arg + p[1]) % width,
                                           (call.y - call.arg + p[2]) % height>>]
        /\ translate_coordinate(-1, width) = width - 1
        /\ translate_coordinate(width, width) = 0
        /\ translate_coordinate(-1, height) = height - 1
        /\ translate_coordinate(height, height) = 0

C6_Witness ==
    /\ call.op = "nhood"
    /\ call.type = "MOORE"
    /\ boundary
    /\ call.arg = width
    /\ call.arg = height
    /\ call.arg >= 2
    /\ ret.kind = "matrix"
    /\ \E p \in DOMAIN ret.val.cell : ret.val.cell[p] = CELL_ALIVE

(* C7: count_nhood() without a matrix returns the number of live cells of   *)
(* the grid, with no centre correction.                                     *)
C7_WholeGridCount ==
    call.op = "count" => (ret.kind = "value" /\ ret.val = Population(unimat))

(* C8: when exactly one cell is alive and cycles >= 1, every cell is dead   *)
(* after run(), in both boundary modes.                                     *)
C8_IsolatedCellDies ==
    (RunReturned /\ Population(start) = 1 /\ call.arg >= 1) => AllDead(unimat)

C8_Witness ==
    /\ RunReturned
    /\ Population(start) = 1
    /\ call.arg >= 1
    /\ work.cells = 1
    /\ work.swaps = 1

(* C9: run() with cycles > 0 on a grid without live cells returns at the    *)
(* first generation check, having allocated nothing and handled no cell,    *)
(* with the grid unchanged; and any generation that starts without live     *)
(* cells ends the run there, the remaining cycles abandoned.                *)
C9_EmptyGridExit ==
    /\ [](  (RunReturned /\ AllDead(start) /\ call.arg > 0) =>
                (/\ ret.axis = "dead" /\ work = NoWork /\ cycle = 1
                 /\ ucopy = NoGrid /\ unimat = start))
    /\ [][  (pc = "loop" /\ cycle <= cycles /\ AllDead(unimat)) =>
                (pc' = "idle" /\ ret'.axis = "dead" /\ unimat' = unimat /\ work' = work)]_vars

C9_Witness ==
    /\ RunReturned
    /\ AllDead(start)
    /\ call.arg >= 2
    /\ ret.axis = "dead"

(* C10: every cell of the grid is 0 or 1 in every state reached by set      *)
(* calls with 0 or 1 and by run(); -1 never gets into the grid.             *)
C10_GridCellDomain ==
    /\ DOMAIN unimat = Cells(width, height)
    /\ \A p \in DOMAIN unimat : unimat[p] \in {CELL_DEAD, CELL_ALIVE}

C10_Witness ==
    /\ RunReturned
    /\ ~boundary
    /\ work.swaps >= 1
    /\ \E p \in DOMAIN unimat : start[p] = CELL_DEAD /\ unimat[p] = CELL_ALIVE

(* C11: a get or set that fails on an out-of-range coordinate raises the     *)
(* index error naming the width bound with x when x is outside the grid     *)
(* (whatever y is), and the height bound with y when only y is outside.     *)
C11_ErrorNamesAxis ==
    (call.op \in {"get", "set"} /\ IsError(ret)) =>
        /\ ~(0 <= call.x /\ call.x < width) =>
              ret = ConwayIndexError("width", call.x)
        /\ ((0 <= call.x /\ call.x < width) /\ ~(0 <= call.y /\ call.y < height)) =>
              ret = ConwayIndexError("height", call.y)

(* C12: in both boundary modes, after set(x, y, v) at a cell of the grid,    *)
(* with v alive or dead, the cell holds v and get(x, y) returns v; a get    *)
(* returns what the grid holds at the cell.                                 *)
C12_SetGetRoundTrip ==
    /\ (call.op = "set" /\ InGrid(call.x, call.y)) =>
          /\ ret = PyNone
          /\ unimat[<<call.x, call.y>>] = call.arg
          /\ getitem(call.x, call.y) = Value(call.arg)
    /\ (call.op = "get" /\ InGrid(call.x, call.y)) =>
          ret = Value(unimat[<<call.x, call.y>>])

C12_Witness ==
    /\ call.op = "set"
    /\ InGrid(call.x, call.y)
    /\ call.x # call.y
    /\ call.arg = CELL_ALIVE
    /\ start[<<call.x, call.y>>] = CELL_DEAD
    /\ ~boundary
    /\ getitem(call.x, call.y) = Value(CELL_ALIVE)

(* C13: nhood(x, y, depth, type) changes neither the grid nor width,        *)
(* height, boundary or cycles, so the same call made again on the grid it   *)
(* leaves returns what the first call returned.                             *)
C13_NhoodPure ==
    /\ [](call.op = "nhood" =>
            (/\ unimat = start
             /\ ret = nhood(call.x, call.y, call.arg, call.type)))
    /\ [][(call.op # "nhood" /\ call'.op = "nhood") =>
            (/\ unimat' = unimat /\ width' = width /\ height' = height
             /\ boundary' = boundary /\ cycles' = cycles
             /\ ret' = nhood(call'.x, call'.y, call'.arg, call'.type))]_vars

C13_Witness ==
    /\ call.op = "nhood"
    /\ call.type = "MOORE"
    /\ call.arg >= 1
    /\ ret.kind = "matrix"
    /\ start[<<call.x, call.y>>] = CELL_ALIVE
    /\ Population(start) = 2
    /\ \E p \in DOMAIN ret.val.cell : ret.val.cell[p] = CELL_INACTIVE

(* C14: width and height never change, whatever is called or assigned, and *)
(* an assignment to width or to height raises an error of the universe's    *)
(* own exception classes.                                                   *)
C14_DimensionsFixed ==
    /\ [][width' = width /\ height' = height]_vars
    /\ [](call.op \in {"set_width", "set_height"} => ret.kind \in UniverseErrors)

(* C15: while a generation handles its live cells the grid stays the grid  *)
(* the generation started from and the cells handled are its live cells;    *)
(* the next grid starts all dead; and during run() the grid changes only in *)
(* the step after the last live cell, where it becomes the next grid.       *)
C15_GenerationIsolation ==
    /\ [](pc = "cells" =>
            (/\ unimat = old
             /\ DOMAIN ucopy = DOMAIN unimat
             /\ {cells_alive[k] : k \in 1..Len(cells_alive)} = LiveSet(old)))
    /\ [][(pc = "loop" /\ pc' = "cells") =>
            (/\ unimat' = unimat
             /\ DOMAIN ucopy' = Cells(width, height)
             /\ AllDead(ucopy'))]_vars
    /\ [][(pc = "cells" /\ pc' = "cells") => unimat' = unimat]_vars
    /\ [][(pc # "idle" /\ unimat' # unimat) =>
            (/\ pc = "cells"
             /\ position = Len(cells_alive)
             /\ unimat' = ucopy
             /\ pc' = "loop")]_vars

C15_Witness ==
    /\ pc = "cells"
    /\ position >= 1
    /\ position < Len(cells_alive)
    /\ ~AllDead(ucopy)
    /\ ucopy # unimat
    /\ unimat = old

(* C16: run() returns; it replaces the grid at most cycles times, never     *)
(* when cycles <= 0, and fewer than cycles times only when a generation     *)
(* started without live cells, at which point it returns at once.           *)
C16_RunTerminates ==
    /\ (call.op = "run" /\ pc # "idle") ~> RunReturned
    /\ [](call.op = "run" =>
            (/\ work.swaps <= (IF call.arg > 0 THEN call.arg ELSE 0)
             /\ call.arg <= 0 => (work = NoWork /\ unimat = start)))
    /\ [](RunReturned =>
            (work.swaps < (IF call.arg > 0 THEN call.arg ELSE 0) => AllDead(unimat)))
    /\ [][(pc = "loop" /\ AllDead(unimat)) =>
            (pc' = "idle" /\ work' = work /\ unimat' = unimat)]_vars

C16_Witness ==
    /\ RunReturned
    /\ call.arg >= 2
    /\ work.swaps = call.arg
    /\ ~AllDead(unimat)

(* C17: with boundary false, handling the live cell (x, y) writes no cell   *)
(* of the next grid outside the window of (x, y): a birth candidate whose   *)
(* coordinate is -1 or the dimension is skipped and no cell of the opposite *)
(* edge is written for it.                                                  *)
C17_OutOfGridBirthSkipped ==
    [][(pc = "cells" /\ pc' = "cells" /\ ~boundary) =>
          \A p \in DOMAIN ucopy :
              ucopy'[p] # ucopy[p] =>
                  LET c == cells_alive[position + 1]
                  IN  /\ c[1] - 1 <= p[1] /\ p[1] <= c[1] + 1
                      /\ c[2] - 1 <= p[2] /\ p[2] <= c[2] + 1]_vars

(* C18: count_nhood on a square matrix of side 2*depth+1 with cells in     *)
(* {-1, 0, 1} returns the number of cells equal to 1 other than the centre  *)
(* cell, for every depth from 0.                                            *)
C18_WindowedLiveCount ==
    call.op = "count_window" =>
        /\ DOMAIN start = Cells(2 * call.arg + 1, 2 * call.arg + 1)
        /\ \A p \in DOMAIN start : start[p] \in {CELL_INACTIVE, CELL_DEAD, CELL_ALIVE}
        /\ ret = Value(Cardinality({p \in DOMAIN start :
                                       start[p] = CELL_ALIVE /\ p # <<call.arg, call.arg>>}))

====
